---------------------------- MODULE Spec2Model ----------------------------
(***************************************************************************)
(* The resilient query layer of infini-pay:                                *)
(*   - OptimizedRaydiumService: the TTL cache with request de-duplication  *)
(*     (src/src/utils/optimizedRaydiumService.ts, lines 10-218);           *)
(*   - RPCService: endpoint failover and the memoized connection           *)
(*     (src/src/utils/rpcService.ts);                                      *)
(*   - useRaydiumSDK: the readiness hook with bounded retry                *)
(*     (src/src/hooks/useRaydiumSDK.ts, and the revision with              *)
(*     isInitializingRef in src/unnamed/part_011).                         *)
(* Each component has its own specification over the shared variables.     *)
(***************************************************************************)
EXTENDS Integers, Sequences, FiniteSets, TLC

VARIABLES
    \* ---- OptimizedRaydiumService ----
    now,            \* Date.now(), in ticks
    cache,          \* this.cache: key -> CacheEntry | NoEntry
    requestQueue,   \* this.requestQueue: key -> flight (the promise) | NoReq
    flights,        \* the promises operation() returned, by creation order
    calls,          \* per caller, its latest withCache call
    lastStore,      \* per key, the entry the latest setCache built
    clearedFlights, \* the operations that were in progress at a clearCache()
    debounceTimers, \* this.debounceTimers: the operation whose timer is
                    \* registered for the token pair, or NoReq
    \* ---- RPCService ----
    connection,     \* this.connection: NoConn | [ep, by]
    currentEndpoint,\* this.currentEndpoint: 0 is ''
    rpc,            \* the getConnection() calls
    begunBeforeReset, \* the calls whose probe sequence was running at a reset()
    \* ---- useRaydiumSDK ----
    state,          \* the hook's state: status, error, isReady, retryCount
    seenRetryCount, \* state.retryCount as captured by the rendered retry closure
    attempts,       \* the initialize() invocations in progress: first and retry
    mounted,        \* the mount effect has run
    isInitializingRef, \* isInitializingRef.current (part_011 revision)
    failedRetries,  \* failed retry attempts since the last success
    service,        \* raydiumSwapService: isInitialized, and the initialize()
                    \* invocations its methods made on demand
    \* ---- useWalletData ----
    connected,      \* connected && publicKey
    balances,       \* the balances state: icc_balance, usdc_balance, sol_balance
    lastBalanceCheck, \* the lastBalanceCheck state
    loading,        \* the loading state
    fetch,          \* the fetchBalances call in progress, or the last one
    toasts,         \* the toasts shown
    \* ---- RaydiumSwapService.simulateSwap ----
    sim,            \* the service's isInitialized, a pool snapshot, the last call
    \* ---- OptimizedRaydiumService.getCacheKey ----
    keyed           \* the latest two facade calls and the cache keys they got

cacheVars == <<now, cache, requestQueue, flights, calls, lastStore, clearedFlights,
               debounceTimers>>
rpcVars   == <<connection, currentEndpoint, rpc, begunBeforeReset>>
hookVars  == <<state, seenRetryCount, attempts, mounted, isInitializingRef, failedRetries,
               service>>
walletVars == <<connected, balances, lastBalanceCheck, loading, fetch, toasts>>
simVars   == <<sim, keyed>>
vars      == <<cacheVars, rpcVars, hookVars, walletVars, simVars>>

-----------------------------------------------------------------------------
(* Bounds of the model *)

MaxTime == 2
MaxFlights == 2
NumCallers == 2
NumRpcCallers == 2
MaxRunning == 4
MaxOnDemand == 2

\* the cache keys in use, and the duration each call site passes for its key
\* (a short and a longer CACHE_DURATIONS class, in ticks)
Keys == {"simulateSwap", "getPoolInfo"}
cacheDuration(k) == IF k = "simulateSwap" THEN 1 ELSE 2
FlightIds == 1..MaxFlights
Callers == 1..NumCallers
RpcCallers == 1..NumRpcCallers

-----------------------------------------------------------------------------
(* OptimizedRaydiumService: cache and request de-duplication *)

NoEntry == [data |-> 0, timestamp |-> -1, expiresAt |-> -1]
NoReq == 0
NoResult == <<"none", 0>>
NoFlight == [key |-> "", st |-> "unused", dur |-> 0]
NoCall == [key |-> "", sawLive |-> FALSE, sawData |-> 0, storedLive |-> FALSE,
           storedData |-> 0, inflight |-> NoReq, pend |-> {}, mode |-> "none",
           flight |-> NoReq, result |-> NoResult]

\* if (this.cache.size > 100) this.cleanupCache()
CleanupThreshold == 100

isCacheValidLate(entry, t) == t <= entry.expiresAt

\* return Date.now() < entry.expiresAt
isCacheValid(entry, t) == t < entry.expiresAt

cacheSize(c) == Cardinality({k \in DOMAIN c : c[k] # NoEntry})

cleanupCacheOlder(c, t) ==
    [k \in DOMAIN c |-> IF c[k] # NoEntry /\ t > c[k].timestamp THEN NoEntry ELSE c[k]]

\* removes every entry with now >= entry.expiresAt
cleanupCache(c, t) ==
    [k \in DOMAIN c |-> IF c[k] # NoEntry /\ t >= c[k].expiresAt THEN NoEntry ELSE c[k]]

\* the entry setCache builds: both Date.now() reads fall in the same tick
newEntry(data, duration, t) == [data |-> data, timestamp |-> t, expiresAt |-> t + duration]

\* this.cache.set(key, entry), then the size-triggered sweep
setCache(c, key, data, duration, t) ==
    LET c1 == [c EXCEPT ![key] = newEntry(data, duration, t)]
    IN  IF cacheSize(c1) > CleanupThreshold THEN cleanupCache(c1, t) ELSE c1

\* const cached = this.cache.get(cacheKey); cached && this.isCacheValid(cached)
cacheHit(k) == cache[k] # NoEntry /\ isCacheValid(cache[k], now)

pendingFlights(k) == {f \in FlightIds : flights[f].st = "pending" /\ flights[f].key = k}

nextFlight == Cardinality({f \in FlightIds : flights[f].st # "unused"}) + 1

\* an entry whose expiry lies strictly after time t
liveAt(entry, t) == entry # NoEntry /\ entry.expiresAt > t

\* what a caller's withCache call found when it was issued (the key's cache
\* entry, the entry of the key's latest store, the requests in progress), the
\* branch it took and what it got
callRecord(k, mode, f, res) ==
    [key |-> k,
     sawLive |-> liveAt(cache[k], now), sawData |-> cache[k].data,
     storedLive |-> liveAt(lastStore[k], now), storedData |-> lastStore[k].data,
     inflight |-> requestQueue[k], pend |-> pendingFlights(k),
     mode |-> mode, flight |-> f, result |-> res]

\* withCache up to its first await: cache hit, or attach to the request in
\* progress, or call operation() and register its promise.
withCache(c, k, d) ==
    /\ calls[c].mode = "none"
    /\ IF cacheHit(k)
       THEN /\ calls' = [calls EXCEPT ![c] =
                            callRecord(k, "hit", NoReq, <<"ok", cache[k].data>>)]
            /\ UNCHANGED <<requestQueue, flights>>
       ELSE IF requestQueue[k] # NoReq
       THEN /\ calls' = [calls EXCEPT ![c] =
                            callRecord(k, "join", requestQueue[k], NoResult)]
            /\ UNCHANGED <<requestQueue, flights>>
       ELSE /\ nextFlight \in FlightIds
            /\ flights' = [flights EXCEPT ![nextFlight] =
                              [key |-> k, st |-> "pending", dur |-> d]]
            /\ requestQueue' = [requestQueue EXCEPT ![k] = nextFlight]
            /\ calls' = [calls EXCEPT ![c] =
                            callRecord(k, "load", nextFlight, NoResult)]
    /\ UNCHANGED <<now, cache, lastStore, clearedFlights, debounceTimers, rpcVars, hookVars, walletVars, simVars>>

\* what the f-th operation() produces: a value, or an error, of its own
valueOf(f) == f
errorOf(f) == f

\* every caller holding the promise of flight f receives its outcome
settled(f, outcome) ==
    [c \in Callers |->
        IF calls[c].flight = f /\ calls[c].result = NoResult
        THEN [calls[c] EXCEPT !.result = outcome] ELSE calls[c]]

\* the promise fulfils: the owner stores the result (try), deletes the
\* in-flight entry of the key (finally); every caller holding the promise
\* gets the value.
loaderResolves(f) ==
    /\ flights[f].st = "pending"
    /\ flights' = [flights EXCEPT ![f] = [key |-> flights[f].key, st |-> "fulfilled", dur |-> 0]]
    /\ cache' = setCache(cache, flights[f].key, valueOf(f), flights[f].dur, now)
    /\ lastStore' = [lastStore EXCEPT ![flights[f].key] = newEntry(valueOf(f), flights[f].dur, now)]
    /\ requestQueue' = [requestQueue EXCEPT ![flights[f].key] = NoReq]
    /\ calls' = settled(f, <<"ok", valueOf(f)>>)
    /\ UNCHANGED <<now, clearedFlights, debounceTimers, rpcVars, hookVars, walletVars, simVars>>

\* what the f-th operation() returns when its upstream request failed inside
\* the wrapped service method: the method catches the failure and returns its
\* failure outcome (getPoolInfo null, getTokenBalance 0, simulateSwap a result
\* carrying an error), written as a negative value
failureOf(f) == 0 - f
isFailureOutcome(data) == data < 0

\* the upstream request of operation() fails, the wrapped method swallows the
\* failure and the promise fulfils with the failure outcome: withCache
\* treats it as any other result (setCache in the try, delete in the finally)
loaderResolvesFailure(f) ==
    /\ flights[f].st = "pending"
    /\ flights' = [flights EXCEPT ![f] = [key |-> flights[f].key, st |-> "fulfilled", dur |-> 0]]
    /\ cache' = setCache(cache, flights[f].key, failureOf(f), flights[f].dur, now)
    /\ lastStore' = [lastStore EXCEPT ![flights[f].key] = newEntry(failureOf(f), flights[f].dur, now)]
    /\ requestQueue' = [requestQueue EXCEPT ![flights[f].key] = NoReq]
    /\ calls' = settled(f, <<"ok", failureOf(f)>>)
    /\ UNCHANGED <<now, clearedFlights, debounceTimers, rpcVars, hookVars, walletVars, simVars>>

\* the promise rejects: nothing is stored, finally deletes the in-flight
\* entry of the key, the rejection propagates.
loaderRejects(f) ==
    /\ flights[f].st = "pending"
    /\ flights' = [flights EXCEPT ![f] = [key |-> flights[f].key, st |-> "rejected", dur |-> 0]]
    /\ requestQueue' = [requestQueue EXCEPT ![flights[f].key] = NoReq]
    /\ calls' = settled(f, <<"err", errorOf(f)>>)
    /\ UNCHANGED <<now, cache, lastStore, clearedFlights, debounceTimers, rpcVars, hookVars, walletVars, simVars>>

\* this.cache.clear(); this.requestQueue.clear()
clearCache ==
    /\ \/ \E k \in DOMAIN cache : cache[k] # NoEntry
       \/ \E k \in DOMAIN requestQueue : requestQueue[k] # NoReq
    /\ cache' = [k \in DOMAIN cache |-> NoEntry]
    /\ requestQueue' = [k \in DOMAIN requestQueue |-> NoReq]
    /\ UNCHANGED <<now, lastStore, flights, calls, clearedFlights, debounceTimers, rpcVars, hookVars, walletVars,
                   simVars>>

\* clearCache() with its history kept: the operations in progress are not
\* cancelled, and are noted as in progress at this clearCache()
clearCacheObserved ==
    /\ \/ \E k \in DOMAIN cache : cache[k] # NoEntry
       \/ \E k \in DOMAIN requestQueue : requestQueue[k] # NoReq
    /\ cache' = [k \in DOMAIN cache |-> NoEntry]
    /\ requestQueue' = [k \in DOMAIN requestQueue |-> NoReq]
    /\ clearedFlights' = clearedFlights \cup {f \in FlightIds : flights[f].st = "pending"}
    /\ UNCHANGED <<now, lastStore, flights, calls, debounceTimers, rpcVars, hookVars, walletVars,
                   simVars>>

Tick ==
    /\ now < MaxTime
    /\ now' = now + 1
    /\ UNCHANGED <<cache, lastStore, requestQueue, flights, calls, clearedFlights, debounceTimers, rpcVars, hookVars,
                   walletVars, simVars>>

CacheInit ==
    /\ now = 0
    /\ cache = [k \in Keys |-> NoEntry]
    /\ lastStore = [k \in Keys |-> NoEntry]
    /\ requestQueue = [k \in Keys |-> NoReq]
    /\ flights = [f \in FlightIds |-> NoFlight]
    /\ calls = [c \in Callers |-> NoCall]
    /\ clearedFlights = {}
    /\ debounceTimers = NoReq

\* a cache that already serves many distinct argument lists: the keys of
\* earlier calls of the short and of the longer duration class, each stored in
\* the first tick (more of them than the sweep's threshold)
ShortLived == {"s1", "s2"}
LongLived ==
    {"l001", "l002", "l003", "l004", "l005", "l006", "l007", "l008", "l009", "l010",
     "l011", "l012", "l013", "l014", "l015", "l016", "l017", "l018", "l019", "l020",
     "l021", "l022", "l023", "l024", "l025", "l026", "l027", "l028", "l029", "l030",
     "l031", "l032", "l033", "l034", "l035", "l036", "l037", "l038", "l039", "l040",
     "l041", "l042", "l043", "l044", "l045", "l046", "l047", "l048", "l049", "l050",
     "l051", "l052", "l053", "l054", "l055", "l056", "l057", "l058", "l059", "l060",
     "l061", "l062", "l063", "l064", "l065", "l066", "l067", "l068", "l069", "l070",
     "l071", "l072", "l073", "l074", "l075", "l076", "l077", "l078", "l079", "l080",
     "l081", "l082", "l083", "l084", "l085", "l086", "l087", "l088", "l089", "l090",
     "l091", "l092", "l093", "l094", "l095", "l096", "l097", "l098", "l099", "l100"}
OtherKeys == ShortLived \cup LongLived

preloaded(k) ==
    newEntry(0, IF k \in ShortLived THEN cacheDuration("simulateSwap")
                ELSE cacheDuration("getPoolInfo"), 0)

FullCacheInit ==
    /\ now = 0
    /\ cache = [k \in Keys \cup OtherKeys |-> IF k \in Keys THEN NoEntry ELSE preloaded(k)]
    /\ lastStore = [k \in Keys |-> NoEntry]
    /\ requestQueue = [k \in Keys |-> NoReq]
    /\ flights = [f \in FlightIds |-> NoFlight]
    /\ calls = [c \in Callers |-> NoCall]
    /\ clearedFlights = {}
    /\ debounceTimers = NoReq

\* the calls, their settling with a value or an error, clearCache and time
\* over the full cache
FullCacheNext ==
    \/ \E c \in Callers, k \in Keys : withCache(c, k, cacheDuration(k))
    \/ \E f \in FlightIds : loaderResolves(f)
    \/ \E f \in FlightIds : loaderRejects(f)
    \/ clearCache
    \/ Tick

CacheNext ==
    \/ \E c \in Callers, k \in Keys : withCache(c, k, cacheDuration(k))
    \/ \E f \in FlightIds : loaderResolves(f)
    \/ \E f \in FlightIds : loaderResolvesFailure(f)
    \/ \E f \in FlightIds : loaderRejects(f)
    \/ clearCache
    \/ Tick

\* the cache keys of simulateSwap calls for one token pair that differ in
\* their input amount
AmountKeys == {"simulateSwap:100", "simulateSwap:200"}

\* simulateSwap of optimizedRaydiumService: withCache over the debounced
\* simulation. On a miss with no request in progress for the key, operation()
\* is the debounced function: it returns a new promise, clears the timer
\* registered for the pair (one that has not fired yet never runs: its promise
\* stays pending), and registers a timer of its own
debouncedSimulateSwap(c, k) ==
    /\ calls[c].mode = "none"
    /\ IF cacheHit(k)
       THEN /\ calls' = [calls EXCEPT ![c] =
                            callRecord(k, "hit", NoReq, <<"ok", cache[k].data>>)]
            /\ UNCHANGED <<requestQueue, flights, debounceTimers>>
       ELSE IF requestQueue[k] # NoReq
       THEN /\ calls' = [calls EXCEPT ![c] =
                            callRecord(k, "join", requestQueue[k], NoResult)]
            /\ UNCHANGED <<requestQueue, flights, debounceTimers>>
       ELSE /\ nextFlight \in FlightIds
            /\ flights' = [f \in FlightIds |->
                  IF f = nextFlight
                  THEN [key |-> k, st |-> "waiting", dur |-> cacheDuration("simulateSwap")]
                  ELSE IF f = debounceTimers /\ flights[f].st = "waiting"
                  THEN [flights[f] EXCEPT !.st = "cancelled"]
                  ELSE flights[f]]
            /\ debounceTimers' = nextFlight
            /\ requestQueue' = [requestQueue EXCEPT ![k] = nextFlight]
            /\ calls' = [calls EXCEPT ![c] =
                            callRecord(k, "load", nextFlight, NoResult)]
    /\ UNCHANGED <<now, cache, lastStore, clearedFlights, rpcVars, hookVars, walletVars, simVars>>

\* the 300 ms timer of operation f fires: fn(...args), the simulation of the
\* underlying service, is called
timerFires(f) ==
    /\ flights[f].st = "waiting"
    /\ flights' = [flights EXCEPT ![f].st = "running"]
    /\ UNCHANGED <<now, cache, lastStore, requestQueue, calls, clearedFlights, debounceTimers,
                   rpcVars, hookVars, walletVars, simVars>>

\* the simulation returns: resolve(result), and the finally of the timer
\* callback deletes the pair's timer entry; then the continuation of
\* withCache stores the result and deletes the key's in-flight entry
debouncedResolves(f) ==
    /\ flights[f].st = "running"
    /\ flights' = [flights EXCEPT ![f] = [key |-> flights[f].key, st |-> "fulfilled", dur |-> 0]]
    /\ debounceTimers' = NoReq
    /\ cache' = setCache(cache, flights[f].key, valueOf(f), flights[f].dur, now)
    /\ lastStore' = [lastStore EXCEPT ![flights[f].key] = newEntry(valueOf(f), flights[f].dur, now)]
    /\ requestQueue' = [requestQueue EXCEPT ![flights[f].key] = NoReq]
    /\ calls' = settled(f, <<"ok", valueOf(f)>>)
    /\ UNCHANGED <<now, clearedFlights, rpcVars, hookVars, walletVars, simVars>>

\* the simulation throws: reject(error), the timer entry is deleted; nothing
\* is stored, the key's in-flight entry is deleted
debouncedRejects(f) ==
    /\ flights[f].st = "running"
    /\ flights' = [flights EXCEPT ![f] = [key |-> flights[f].key, st |-> "rejected", dur |-> 0]]
    /\ debounceTimers' = NoReq
    /\ requestQueue' = [requestQueue EXCEPT ![flights[f].key] = NoReq]
    /\ calls' = settled(f, <<"err", errorOf(f)>>)
    /\ UNCHANGED <<now, cache, lastStore, clearedFlights, rpcVars, hookVars, walletVars, simVars>>

DebounceInit ==
    /\ now = 0
    /\ cache = [k \in AmountKeys |-> NoEntry]
    /\ lastStore = [k \in AmountKeys |-> NoEntry]
    /\ requestQueue = [k \in AmountKeys |-> NoReq]
    /\ flights = [f \in FlightIds |-> NoFlight]
    /\ calls = [c \in Callers |-> NoCall]
    /\ clearedFlights = {}
    /\ debounceTimers = NoReq

DebounceNext ==
    \/ \E c \in Callers, k \in AmountKeys : debouncedSimulateSwap(c, k)
    \/ \E f \in FlightIds : timerFires(f)
    \/ \E f \in FlightIds : debouncedResolves(f)
    \/ \E f \in FlightIds : debouncedRejects(f)
    \/ Tick

\* every timer that is not cleared fires, and the upstream simulation
\* terminates
DebounceFairness ==
    \A f \in FlightIds :
        /\ WF_vars(timerFires(f))
        /\ WF_vars(debouncedResolves(f) \/ debouncedRejects(f))

\* the same operations, with the history of clearCache() kept
CacheObservedNext ==
    \/ \E c \in Callers, k \in Keys : withCache(c, k, cacheDuration(k))
    \/ \E f \in FlightIds : loaderResolves(f)
    \/ \E f \in FlightIds : loaderResolvesFailure(f)
    \/ \E f \in FlightIds : loaderRejects(f)
    \/ clearCacheObserved
    \/ Tick

-----------------------------------------------------------------------------
(* Claims about the cache *)

\* C31 (as claimed): every simulateSwap call of the facade eventually settles
\* and its in-flight entry is eventually removed, provided the upstream
\* simulation terminates.
C31_SimulateSwapSettles ==
    /\ \A c \in Callers :
          (calls[c].mode # "none" /\ calls[c].result = NoResult)
             ~> (calls[c].result # NoResult)
    /\ \A k \in AmountKeys : (requestQueue[k] # NoReq) ~> (requestQueue[k] = NoReq)

\* C32 (as claimed): no value produced by an operation that was in progress
\* at a clearCache() is stored in the cache afterwards, or served as a cache
\* hit.
C32_ClearedLoadsNotStored ==
    \A f \in clearedFlights :
        /\ \A k \in Keys : cache[k] = NoEntry \/ cache[k].data \notin {valueOf(f), failureOf(f)}
        /\ \A c \in Callers :
              calls[c].mode = "hit" => calls[c].result[2] \notin {valueOf(f), failureOf(f)}

\* C1 (as claimed): single-flight. A withCache call issued while its key has
\* no live cache entry and an earlier operation for the key is still pending
\* does not invoke the loader: it attaches to that one pending operation, and
\* all callers of one operation get the same outcome.
C1_SingleFlight ==
    /\ \A c \in Callers :
          (calls[c].mode # "none" /\ ~calls[c].sawLive /\ calls[c].pend # {})
             => /\ calls[c].mode = "join"
                /\ calls[c].pend = {calls[c].flight}
    /\ \A c1, c2 \in Callers :
          (calls[c1].flight # NoReq /\ calls[c1].flight = calls[c2].flight)
             => calls[c1].result = calls[c2].result

\* C2 (as claimed): when the loader rejects, nothing is stored, the key's
\* in-flight entry is gone, every attached caller holds that rejection, and
\* the next call for the key would invoke the loader again (no live entry and
\* no request in progress for the key).
C2_RejectionNotCached ==
    [][\A f \in FlightIds :
          (flights[f].st = "pending" /\ flights'[f].st = "rejected")
             => /\ cache' = cache
                /\ requestQueue'[flights[f].key] = NoReq
                /\ \A c \in Callers :
                      calls[c].flight = f => calls'[c].result = <<"err", errorOf(f)>>
                /\ ~liveAt(cache'[flights[f].key], now')]_vars

C4_RemovedOncePerOccupancy ==
    [][/\ \A f \in FlightIds :
             (flights[f].st = "pending" /\ flights'[f].st # "pending")
                => (requestQueue[flights[f].key] \notin {NoReq, f}
                       => requestQueue'[flights[f].key] = requestQueue[flights[f].key])
       /\ \A k \in Keys :
             Cardinality({f \in FlightIds :
                             flights'[f].st = "pending" /\ flights'[f].key = k}) <= 1]_vars

\* C27 (as claimed): the cache and the in-flight registry change only in the
\* steps of withCache: the step of a call (a caller's call record changes) or
\* the settling of the operation a call started (its promise changes).
C27_OnlyWithCacheMutates ==
    [][(cache' # cache \/ requestQueue' # requestQueue)
          => (calls' # calls \/ flights' # flights)]_vars

\* C28: size-triggered eviction. In a step that stores an entry (the operation
\* of a withCache call fulfils), the new entry is in the cache, and another
\* entry is removed exactly when the store leaves more than CleanupThreshold
\* entries in the cache and the entry's expiresAt is <= now; every other entry,
\* so every entry that is still live, stays as it was.
C28_SweepOnlyExpired ==
    [][\A f \in FlightIds :
          (flights[f].st = "pending" /\ flights'[f].st = "fulfilled") =>
             LET s == flights[f].key
                 count == Cardinality({j \in DOMAIN cache : j = s \/ cache[j] # NoEntry})
             IN  /\ cache'[s] = lastStore'[s]
                 /\ \A k \in DOMAIN cache \ {s} :
                       /\ cache'[k] \in {cache[k], NoEntry}
                       /\ (cache[k] # NoEntry /\ cache'[k] = NoEntry)
                             <=> /\ cache[k] # NoEntry
                                 /\ cache[k].expiresAt <= now
                                 /\ count > CleanupThreshold]_vars

\* a sweep has removed expired entries (of a preloaded key and of a key stored
\* later) while more than CleanupThreshold live entries stay readable
C28_Witness ==
    /\ \E k \in Keys : cache[k] = NoEntry /\ lastStore[k] # NoEntry
    /\ \E k \in ShortLived : cache[k] = NoEntry
    /\ \E k \in Keys : cacheHit(k)
    /\ Cardinality({j \in DOMAIN cache : liveAt(cache[j], now)}) > CleanupThreshold

\* C17 (as claimed): the failure outcome of a wrapped operation whose upstream
\* request failed is never an entry of the cache, and no withCache call is
\* served such an outcome from the cache: the call after the failure contacts
\* upstream again.
C17_FailureNotCached ==
    /\ \A k \in Keys : ~isFailureOutcome(cache[k].data)
    /\ \A c \in Callers :
          calls[c].mode = "hit" => ~isFailureOutcome(calls[c].result[2])

-----------------------------------------------------------------------------
(* RPCService: endpoint failover and the memoized connection *)

\* private readonly endpoints = [ ... ]: four addresses, tried by list index
NumEndpoints == 4
Endpoints == 1..NumEndpoints

NoConn == [ep |-> 0, by |-> 0]
NoRpcCall == [st |-> "idle", probes |-> <<>>, result |-> NoConn, cached |-> FALSE,
              overtaken |-> FALSE]

nextEndpointSkipping(i) == i + 2

\* for (const endpoint of this.endpoints): the endpoint after the i-th
nextEndpoint(i) == i + 1

\* the probe a call is waiting for
probing(c) == rpc[c].st = "probing"
currentProbe(c) == Len(rpc[c].probes)

\* the test request of one loop iteration: new Connection(endpoint) and
\* Promise.race([getLatestBlockhash(), timeout])
issueProbe(r, e) == [r EXCEPT !.st = "probing",
                              !.probes = Append(@, [ep |-> e, outcome |-> "pending"])]

closeProbe(r, outcome) == [r EXCEPT !.probes[Len(r.probes)].outcome = outcome]

\* getConnection() up to its first await: the memoized connection, or the
\* probe of the first endpoint
getConnection(c) ==
    /\ rpc[c].st = "idle"
    /\ IF connection # NoConn /\ currentEndpoint # 0
       THEN rpc' = [rpc EXCEPT ![c] = [@ EXCEPT !.st = "returned", !.result = connection,
                                                !.cached = TRUE]]
       ELSE rpc' = [rpc EXCEPT ![c] = issueProbe(@, 1)]
    /\ UNCHANGED <<connection, currentEndpoint, begunBeforeReset, cacheVars, hookVars,
                   walletVars, simVars>>

\* the race is won by getLatestBlockhash(): memoize and return testConnection
probeSucceeds(c) ==
    /\ probing(c)
    /\ LET conn == [ep |-> rpc[c].probes[currentProbe(c)].ep, by |-> c] IN
        /\ connection' = conn
        /\ currentEndpoint' = conn.ep
        /\ rpc' = [d \in DOMAIN rpc |->
                     IF d = c
                     THEN [closeProbe(rpc[c], "ok") EXCEPT !.st = "returned", !.result = conn]
                     ELSE IF probing(d) THEN [rpc[d] EXCEPT !.overtaken = TRUE]
                     ELSE rpc[d]]
    /\ UNCHANGED <<begunBeforeReset, cacheVars, hookVars, walletVars, simVars>>

probeFailsMemoizingLast(c, kind) ==
    /\ probing(c)
    /\ LET e == rpc[c].probes[currentProbe(c)].ep IN
        IF e < NumEndpoints
        THEN /\ rpc' = [rpc EXCEPT ![c] = issueProbe(closeProbe(@, kind), nextEndpoint(e))]
             /\ UNCHANGED <<connection, currentEndpoint>>
        ELSE /\ rpc' = [rpc EXCEPT ![c] = [closeProbe(@, kind) EXCEPT !.st = "failed"]]
             /\ connection' = [ep |-> e, by |-> c]
             /\ currentEndpoint' = e
    /\ UNCHANGED <<begunBeforeReset, cacheVars, hookVars, walletVars, simVars>>

\* the probe rejects, or the 3 s timeout wins the race: the catch block logs
\* and continues with the next endpoint; after the last one the call throws
\* 'All RPC endpoints failed'
probeFails(c, kind) ==
    /\ probing(c)
    /\ LET e == rpc[c].probes[currentProbe(c)].ep IN
        IF e < NumEndpoints
        THEN rpc' = [rpc EXCEPT ![c] = issueProbe(closeProbe(@, kind), nextEndpoint(e))]
        ELSE rpc' = [rpc EXCEPT ![c] = [closeProbe(@, kind) EXCEPT !.st = "failed"]]
    /\ UNCHANGED <<connection, currentEndpoint, begunBeforeReset, cacheVars, hookVars,
                   walletVars, simVars>>

resetKeepingEndpoint ==
    /\ connection' = NoConn
    /\ UNCHANGED <<currentEndpoint, rpc, begunBeforeReset, cacheVars, hookVars, walletVars,
                   simVars>>

\* this.connection = null; this.currentEndpoint = ''
reset ==
    /\ connection' = NoConn
    /\ currentEndpoint' = 0
    /\ UNCHANGED <<rpc, begunBeforeReset, cacheVars, hookVars, walletVars, simVars>>

\* reset() with its history kept: the probe sequences in progress are not
\* cancelled, and are noted as begun before this reset
resetObserved ==
    /\ connection' = NoConn
    /\ currentEndpoint' = 0
    /\ begunBeforeReset' = begunBeforeReset \cup {c \in RpcCallers : probing(c)}
    /\ UNCHANGED <<rpc, cacheVars, hookVars, walletVars, simVars>>

blockhashArrivesLateMemoizing(c, i) ==
    /\ i \in 1..Len(rpc[c].probes)
    /\ rpc[c].probes[i].outcome = "timeout"
    /\ rpc' = [rpc EXCEPT ![c].probes[i].outcome = "late"]
    /\ connection' = [ep |-> rpc[c].probes[i].ep, by |-> c]
    /\ currentEndpoint' = rpc[c].probes[i].ep
    /\ UNCHANGED <<begunBeforeReset, cacheVars, hookVars, walletVars, simVars>>

\* the getLatestBlockhash() request of a probe whose 3 s timeout won the race
\* fulfils afterwards: the race is settled and the promise has no other
\* handler, so nothing of the service runs
blockhashArrivesLate(c, i) ==
    /\ i \in 1..Len(rpc[c].probes)
    /\ rpc[c].probes[i].outcome = "timeout"
    /\ rpc' = [rpc EXCEPT ![c].probes[i].outcome = "late"]
    /\ UNCHANGED <<connection, currentEndpoint, begunBeforeReset, cacheVars, hookVars,
                   walletVars, simVars>>

\* getCurrentEndpoint()
getCurrentEndpoint == currentEndpoint

RpcInit ==
    /\ connection = NoConn
    /\ currentEndpoint = 0
    /\ rpc = [c \in RpcCallers |-> NoRpcCall]
    /\ begunBeforeReset = {}

RpcNext ==
    \/ \E c \in RpcCallers : getConnection(c)
    \/ \E c \in RpcCallers : probeSucceeds(c)
    \/ \E c \in RpcCallers, kind \in {"rejected", "timeout"} : probeFails(c, kind)
    \/ reset

\* the same operations, with the history of reset() kept
RpcObservedNext ==
    \/ \E c \in RpcCallers : getConnection(c)
    \/ \E c \in RpcCallers : probeSucceeds(c)
    \/ \E c \in RpcCallers, kind \in {"rejected", "timeout"} : probeFails(c, kind)
    \/ resetObserved

\* the operations with probes that succeed or lose the race against their
\* timeout, and the late completions of the timed-out test requests
RpcLateNext ==
    \/ \E c \in RpcCallers : getConnection(c)
    \/ \E c \in RpcCallers : probeSucceeds(c)
    \/ \E c \in RpcCallers : probeFails(c, "timeout")
    \/ \E c \in RpcCallers, i \in Endpoints : blockhashArrivesLate(c, i)
    \/ reset

-----------------------------------------------------------------------------
(* Claims about RPCService *)

failedOutcomes == {"rejected", "timeout"}

\* C5 (as claimed): concurrent getConnection() calls issued while no
\* connection is memoized share one round of probing: no two calls are each
\* running a probe sequence of their own at the same time.
C5_OneProbeRound ==
    \A c1, c2 \in RpcCallers :
        (c1 # c2 /\ probing(c1)) => ~probing(c2)

\* C6: a call that probes does so in list order from the first endpoint, one
\* probe at a time (a probe is issued only after all earlier ones failed); it
\* returns, and memoizes, the connection of the first endpoint whose probe
\* succeeds, and probes nothing after it; it throws only after all failed.
inListOrder(r) ==
    /\ \A j \in 1..Len(r.probes) : r.probes[j].ep = j
    /\ Len(r.probes) <= NumEndpoints
    /\ \A j \in 1..(Len(r.probes) - 1) : r.probes[j].outcome \in failedOutcomes

C6_FailoverOrder ==
    [][\A c \in RpcCallers :
          /\ inListOrder(rpc'[c])
          /\ rpc'[c].st = "probing"
                => /\ rpc'[c].probes # <<>>
                   /\ rpc'[c].probes[Len(rpc'[c].probes)].outcome = "pending"
          /\ (rpc'[c].st = "returned" /\ ~rpc'[c].cached)
                => /\ rpc'[c].probes # <<>>
                   /\ rpc'[c].probes[Len(rpc'[c].probes)].outcome = "ok"
                   /\ rpc'[c].result = [ep |-> Len(rpc'[c].probes), by |-> c]
          /\ (probing(c) /\ rpc'[c].st = "returned")
                => /\ connection' = rpc'[c].result
                   /\ currentEndpoint' = rpc'[c].result.ep
          /\ rpc'[c].st = "failed"
                => /\ Len(rpc'[c].probes) = NumEndpoints
                   /\ rpc'[c].probes[NumEndpoints].outcome \in failedOutcomes
          /\ rpc[c].st \in {"returned", "failed"} => rpc'[c] = rpc[c]]_vars

\* endpoints [fails, succeeds, ...]: the call returned the second endpoint's
\* connection, which is memoized, and probed no third
C6_Witness ==
    \E c \in RpcCallers :
        /\ rpc[c].st = "returned"
        /\ Len(rpc[c].probes) = 2
        /\ rpc[c].probes[1].outcome = "timeout"
        /\ rpc[c].probes[2].outcome = "ok"
        /\ rpc[c].result.ep = 2
        /\ connection = rpc[c].result
        /\ getCurrentEndpoint = 2

\* C7: a call all of whose probes failed throws (it holds no connection) and
\* leaves connection and currentEndpoint as they are; when no probe succeeded
\* while the call ran, they are none/empty.
C7_AllFail ==
    [][\A c \in RpcCallers :
          (probing(c) /\ rpc'[c].st = "failed")
             => /\ rpc'[c].result = NoConn
                /\ \A j \in 1..NumEndpoints : rpc'[c].probes[j].outcome \in failedOutcomes
                /\ connection' = connection
                /\ currentEndpoint' = currentEndpoint
                /\ ~rpc[c].overtaken
                      => (connection' = NoConn /\ currentEndpoint' = 0)]_vars

\* a call has failed on all endpoints and nothing is memoized
C7_Witness ==
    \E c \in RpcCallers :
        /\ rpc[c].st = "failed"
        /\ ~rpc[c].overtaken
        /\ Len(rpc[c].probes) = NumEndpoints
        /\ connection = NoConn
        /\ getCurrentEndpoint = 0

\* C29: a test request that lost the race against its timeout never changes
\* the connection state: the step in which the request of a timed-out probe
\* completes leaves connection and currentEndpoint as they were, and the
\* memoized connection is always one whose own probe won its race.
C29_LateProbeIgnored ==
    [][/\ (\E c \in RpcCallers, i \in Endpoints :
              /\ i <= Len(rpc[c].probes)
              /\ rpc[c].probes[i].outcome = "timeout"
              /\ rpc'[c].probes[i].outcome = "late")
          => (connection' = connection /\ currentEndpoint' = currentEndpoint)
       /\ connection' # NoConn
          => \E i \in 1..Len(rpc'[connection'.by].probes) :
                /\ rpc'[connection'.by].probes[i].ep = connection'.ep
                /\ rpc'[connection'.by].probes[i].outcome = "ok"]_vars

\* the request of a timed-out probe of endpoint E has completed late while
\* another endpoint is the memoized connection
C29_Witness ==
    \E c \in RpcCallers, i \in Endpoints :
        /\ i <= Len(rpc[c].probes)
        /\ rpc[c].probes[i].outcome = "late"
        /\ connection # NoConn
        /\ connection.ep # rpc[c].probes[i].ep

\* C39: the memoized connection is non-null exactly when currentEndpoint is
\* non-empty, and currentEndpoint is then the endpoint the memoized connection
\* was created for.
C39_ConnectionMatchesEndpoint ==
    /\ (connection # NoConn) <=> (currentEndpoint # 0)
    /\ connection # NoConn => connection.ep = currentEndpoint

\* two calls probed concurrently: the connection one of them memoized and
\* returned has been replaced by the other's
C39_Witness ==
    /\ connection # NoConn
    /\ \E c \in RpcCallers :
          /\ rpc[c].st = "returned"
          /\ ~rpc[c].cached
          /\ rpc[c].result # connection
          /\ rpc[c].result.ep # connection.ep

\* C18 (as claimed): a call that probes starts at the first endpoint, and a
\* call served the memoized connection is never served the result of a probe
\* sequence that was in progress when reset() was called: after a reset a
\* connection comes only from a probe sequence begun after it.
C18_ResetReprobes ==
    \A c \in RpcCallers :
        /\ rpc[c].probes # <<>> => rpc[c].probes[1].ep = 1
        /\ rpc[c].cached => rpc[c].result.by \notin begunBeforeReset

\* C19 (as claimed): while a connection is memoized, a step other than
\* reset() leaves connection and currentEndpoint as they are, currentEndpoint
\* being the endpoint of the memoized connection, and a getConnection() call
\* made in that interval returns the memoized connection and issues no probe.
C19_MemoizedUntilReset ==
    [][connection # NoConn
          => /\ currentEndpoint = connection.ep
             /\ connection' \in {connection, NoConn}
             /\ connection' = connection => currentEndpoint' = currentEndpoint
             /\ \A c \in RpcCallers :
                   (rpc[c].st = "idle" /\ rpc'[c].st # "idle")
                      => /\ rpc'[c].st = "returned"
                         /\ rpc'[c].result = connection
                         /\ rpc'[c].probes = <<>>]_vars

-----------------------------------------------------------------------------
(* useRaydiumSDK: the readiness hook.  The hook of src/src/hooks (initialize,
   retry, mount) and its revision with isInitializingRef (part_011, the ref*
   actions) are two next-state relations over the same state. *)

\* state.retryCount < 3
MaxRetries == 3

NoError == "null"
ReturnedFalse == "SDK initialization returned false"

\* the messages of the failures raised inside raydiumSwapService.initialize():
\* getConnection() throwing after the last endpoint, the API test failing
AllEndpointsFailed == "All RPC endpoints failed - unable to connect to Solana network"
ApiNotAvailable == "Jupiter API not available"
initializeFailures == {AllEndpointsFailed, ApiNotAvailable}

running == attempts.first + attempts.retry

\* canRetry: state.retryCount < 3 && state.status === 'error'
canRetry == state.retryCount < MaxRetries /\ state.status = "error"

\* the first setState of initialize(isRetry)
startState(prev, isRetry) ==
    [prev EXCEPT !.status = IF isRetry THEN "retrying" ELSE "initializing",
                 !.error = NoError,
                 !.retryCount = IF isRetry THEN prev.retryCount + 1 ELSE 0]

\* setState({status: 'ready', error: null, isReady: true, retryCount: 0})
readyState == [status |-> "ready", error |-> NoError, isReady |-> TRUE, retryCount |-> 0]

errorStateCountingFailure(prev, isRetry) ==
    [status |-> "error", error |-> ReturnedFalse, isReady |-> FALSE,
     retryCount |-> IF isRetry THEN prev.retryCount + 1 ELSE prev.retryCount]

\* the setState of the catch block
errorState(prev, isRetry) ==
    [status |-> "error", error |-> ReturnedFalse, isReady |-> FALSE,
     retryCount |-> prev.retryCount]

\* initialize(isRetry) up to its first await
initialize(isRetry) ==
    /\ running < MaxRunning
    /\ state' = startState(state, isRetry)
    /\ attempts' = IF isRetry THEN [attempts EXCEPT !.retry = @ + 1]
                              ELSE [attempts EXCEPT !.first = @ + 1]

\* useEffect(() => { initialize() }, [initialize]): initialize is stable, the
\* effect runs once, on mount
mount ==
    /\ ~mounted
    /\ mounted' = TRUE
    /\ initialize(FALSE)
    /\ UNCHANGED <<seenRetryCount, isInitializingRef, failedRetries, service, cacheVars, rpcVars,
                   walletVars, simVars>>

\* retry(): if (state.retryCount < 3) initialize(true); state is the state
\* of the render that created the callback
retry ==
    /\ mounted
    /\ IF seenRetryCount < MaxRetries
       THEN initialize(TRUE)
       ELSE UNCHANGED <<state, attempts>>
    /\ UNCHANGED <<mounted, seenRetryCount, isInitializingRef, failedRetries, service, cacheVars,
                   rpcVars, walletVars, simVars>>

\* the component re-renders: retry is re-created over the current state
render ==
    /\ seenRetryCount # state.retryCount
    /\ seenRetryCount' = state.retryCount
    /\ UNCHANGED <<state, attempts, mounted, isInitializingRef, failedRetries, service, cacheVars,
                   rpcVars, walletVars, simVars>>

\* raydiumSwapService.initialize() has run to its end: this.isInitialized =
\* true before return true, this.isInitialized = false before return false
initialized(success) == [service EXCEPT !.isInitialized = success]

initializeCatchKeeping ==
    UNCHANGED <<connection, currentEndpoint>>

\* the catch block of raydiumSwapService.initialize() calls
\* rpcService.reset(): this.connection = null; this.currentEndpoint = ''
initializeCatch ==
    /\ connection' = NoConn
    /\ currentEndpoint' = 0

\* a service method called while the service is not initialized
\* (getPoolInfo, getTokenBalance, simulateSwap: if (!this.isInitialized)
\* { const initSuccess = await this.initialize(); ... }): it invokes
\* initialize() itself, whatever the state of the hook
getPoolInfoUninitialized(initSuccess) ==
    /\ ~service.isInitialized
    /\ service.onDemand < MaxOnDemand
    /\ service' = [isInitialized |-> initSuccess, onDemand |-> service.onDemand + 1]
    /\ IF initSuccess THEN UNCHANGED <<connection, currentEndpoint>> ELSE initializeCatch
    /\ UNCHANGED <<state, seenRetryCount, attempts, mounted, isInitializingRef, failedRetries,
                   rpc, begunBeforeReset, cacheVars, walletVars, simVars>>

finish(isRetry) ==
    IF isRetry THEN attempts.retry > 0 /\ attempts' = [attempts EXCEPT !.retry = @ - 1]
               ELSE attempts.first > 0 /\ attempts' = [attempts EXCEPT !.first = @ - 1]

\* the 500 ms delay has passed (the pending render has flushed by then) and
\* raydiumSwapService.initialize() returned true
initSucceeds(isRetry) ==
    /\ seenRetryCount = state.retryCount
    /\ finish(isRetry)
    /\ state' = readyState
    /\ failedRetries' = 0
    /\ service' = initialized(TRUE)
    /\ UNCHANGED <<mounted, seenRetryCount, isInitializingRef, cacheVars, rpcVars, walletVars, simVars>>

\* ... returned false: 'SDK initialization returned false' is thrown and caught
initFails(isRetry) ==
    /\ seenRetryCount = state.retryCount
    /\ finish(isRetry)
    /\ state' = errorState(state, isRetry)
    /\ failedRetries' = IF isRetry THEN failedRetries + 1 ELSE failedRetries
    /\ service' = initialized(FALSE)
    /\ initializeCatch
    /\ UNCHANGED <<mounted, seenRetryCount, isInitializingRef, rpc, begunBeforeReset, cacheVars,
                   walletVars, simVars>>

HookInit ==
    /\ state = [status |-> "idle", error |-> NoError, isReady |-> FALSE, retryCount |-> 0]
    /\ seenRetryCount = 0
    /\ attempts = [first |-> 0, retry |-> 0]
    /\ mounted = FALSE
    /\ isInitializingRef = FALSE
    /\ failedRetries = 0
    /\ service = [isInitialized |-> FALSE, onDemand |-> 0]

HookNext ==
    \/ mount
    \/ retry
    \/ render
    \/ \E isRetry \in BOOLEAN : initSucceeds(isRetry)
    \/ \E isRetry \in BOOLEAN : initFails(isRetry)
    \/ \E initSuccess \in BOOLEAN : getPoolInfoUninitialized(initSuccess)

\* the hook's first attempt while getConnection() calls are made: the
\* initialization under failing dependencies
ServiceInitNext ==
    \/ mount
    \/ \E isRetry \in BOOLEAN : initFails(isRetry)
    \/ \E c \in RpcCallers : getConnection(c)
    \/ \E c \in RpcCallers : probeSucceeds(c)
    \/ \E c \in RpcCallers, kind \in {"rejected", "timeout"} : probeFails(c, kind)

\* raydiumSwapService.initialize() by caller c up to its first await:
\* if (this.isInitialized) return true; otherwise await
\* rpcService.getConnection()
serviceInitialize(c) ==
    IF service.isInitialized
    THEN /\ rpc[c].st = "idle"
         /\ rpc' = [rpc EXCEPT ![c].st = "true"]
         /\ UNCHANGED <<connection, currentEndpoint, begunBeforeReset, cacheVars, hookVars,
                        walletVars, simVars>>
    ELSE getConnection(c)

\* the rest of initialize() of caller c. With a connection, the upstream test
\* (the SDK load / the API request) passes: this.isInitialized = true; return
\* true. Or it fails, or getConnection() threw: the catch block sets
\* this.isInitialized = false, calls rpcService.reset() and returns false
serviceInitializeReturns(c, success) ==
    /\ rpc[c].st \in {"returned", "failed"}
    /\ success => rpc[c].st = "returned"
    /\ rpc' = [rpc EXCEPT ![c].st = IF success THEN "true" ELSE "false"]
    /\ service' = initialized(success)
    /\ IF success THEN UNCHANGED <<connection, currentEndpoint>> ELSE initializeCatch
    /\ UNCHANGED <<state, seenRetryCount, attempts, mounted, isInitializingRef, failedRetries,
                   begunBeforeReset, cacheVars, walletVars, simVars>>

\* the pass-through methods of optimizedRaydiumService
PassThroughMethods == {"swapIccToSol", "initialize"}

passThroughCoalescing(c, method) ==
    /\ calls[c].mode = "none"
    /\ LET begun == {f \in FlightIds : flights[f].key = method /\ flights[f].st = "invoked"} IN
        IF begun # {}
        THEN /\ calls' = [calls EXCEPT ![c] = [NoCall EXCEPT !.key = method, !.mode = "pass",
                                                  !.flight = CHOOSE f \in begun : TRUE]]
             /\ UNCHANGED flights
        ELSE /\ nextFlight \in FlightIds
             /\ flights' = [flights EXCEPT ![nextFlight] =
                               [key |-> method, st |-> "invoked", dur |-> 0]]
             /\ calls' = [calls EXCEPT ![c] = [NoCall EXCEPT !.key = method, !.mode = "pass",
                                                  !.flight = nextFlight]]
    /\ UNCHANGED <<now, cache, lastStore, requestQueue, clearedFlights, debounceTimers, rpcVars, hookVars,
                   walletVars, simVars>>

\* swapIccToSol(...) { return raydiumSwapService.swapIccToSol(...) } and
\* initialize() { return raydiumSwapService.initialize() }: the call invokes
\* the method of the underlying service and returns its promise. An
\* initialize() of an initialized service is about to return true
\* ("returning"); any other invocation contacts upstream ("invoked")
passThrough(c, method) ==
    /\ calls[c].mode = "none"
    /\ nextFlight \in FlightIds
    /\ flights' = [flights EXCEPT ![nextFlight] =
                      [key |-> method,
                       st |-> IF method = "initialize" /\ service.isInitialized
                              THEN "returning" ELSE "invoked",
                       dur |-> 0]]
    /\ calls' = [calls EXCEPT ![c] = [NoCall EXCEPT !.key = method, !.mode = "pass",
                                         !.flight = nextFlight]]
    /\ UNCHANGED <<now, cache, lastStore, requestQueue, clearedFlights, debounceTimers, rpcVars, hookVars,
                   walletVars, simVars>>

\* the underlying method returns. Its initialize() part (the whole of
\* initialize, the on-demand initialization of swapIccToSol) has set
\* isInitialized, and reset the connection when it failed; the caller gets
\* true or a success result, or false or a failure result
passThroughReturns(f, success) ==
    /\ flights[f].st \in {"invoked", "returning"}
    /\ flights[f].st = "returning" => success
    /\ flights' = [flights EXCEPT ![f].st = "fulfilled"]
    /\ calls' = settled(f, <<"ok", IF success THEN valueOf(f) ELSE failureOf(f)>>)
    /\ IF flights[f].st = "returning" \/ (flights[f].key = "swapIccToSol" /\ service.isInitialized)
       THEN UNCHANGED <<service, connection, currentEndpoint>>
       ELSE /\ service' = initialized(success)
            /\ IF success THEN UNCHANGED <<connection, currentEndpoint>> ELSE initializeCatch
    /\ UNCHANGED <<now, cache, lastStore, requestQueue, clearedFlights, debounceTimers, state, seenRetryCount,
                   attempts, mounted, isInitializingRef, failedRetries, rpc, begunBeforeReset,
                   walletVars, simVars>>

\* cached calls and pass-through calls side by side
PassThroughNext ==
    \/ \E c \in Callers, k \in Keys : withCache(c, k, cacheDuration(k))
    \/ \E f \in FlightIds : loaderResolves(f)
    \/ \E f \in FlightIds : loaderRejects(f)
    \/ clearCache
    \/ Tick
    \/ \E c \in Callers, method \in PassThroughMethods : passThrough(c, method)
    \/ \E f \in FlightIds, success \in BOOLEAN : passThroughReturns(f, success)

\* concurrent raydiumSwapService.initialize() calls
ServiceNext ==
    \/ \E c \in RpcCallers : serviceInitialize(c)
    \/ \E c \in RpcCallers : probeSucceeds(c)
    \/ \E c \in RpcCallers, kind \in {"rejected", "timeout"} : probeFails(c, kind)
    \/ \E c \in RpcCallers, success \in BOOLEAN : serviceInitializeReturns(c, success)

(* the revision of part_011, lines 1-101 *)

\* canRetry: ... && !isInitializingRef.current
refCanRetry == canRetry /\ ~isInitializingRef

\* retryCount: isRetry ? prev.retryCount + 1 : prev.retryCount
refStartState(prev, isRetry) ==
    [prev EXCEPT !.status = IF isRetry THEN "retrying" ELSE "initializing",
                 !.error = NoError,
                 !.retryCount = IF isRetry THEN prev.retryCount + 1 ELSE prev.retryCount]

\* the catch block counts a failed retry once more
refErrorState(prev, isRetry) ==
    [status |-> "error", error |-> ReturnedFalse, isReady |-> FALSE,
     retryCount |-> IF isRetry THEN prev.retryCount + 1 ELSE prev.retryCount]

\* initialize(isRetry): skipped while isInitializingRef.current
refInitialize(isRetry) ==
    IF isInitializingRef
    THEN UNCHANGED <<state, attempts, isInitializingRef>>
    ELSE /\ isInitializingRef' = TRUE
         /\ state' = refStartState(state, isRetry)
         /\ attempts' = IF isRetry THEN [attempts EXCEPT !.retry = @ + 1]
                                   ELSE [attempts EXCEPT !.first = @ + 1]

\* the mount effect: if (!initializationRef.current && state.status === 'idle')
refMount ==
    /\ ~mounted
    /\ mounted' = TRUE
    /\ IF state.status = "idle"
       THEN refInitialize(FALSE)
       ELSE UNCHANGED <<state, attempts, isInitializingRef>>
    /\ UNCHANGED <<seenRetryCount, failedRetries, service, cacheVars, rpcVars, walletVars, simVars>>

\* retry(): if (state.retryCount < 3 && !isInitializingRef.current)
refRetry ==
    /\ mounted
    /\ IF seenRetryCount < MaxRetries /\ ~isInitializingRef
       THEN refInitialize(TRUE)
       ELSE UNCHANGED <<state, attempts, isInitializingRef>>
    /\ UNCHANGED <<mounted, seenRetryCount, failedRetries, service, cacheVars, rpcVars, walletVars,
                   simVars>>

refInitSucceeds(isRetry) ==
    /\ seenRetryCount = state.retryCount
    /\ finish(isRetry)
    /\ state' = readyState
    /\ isInitializingRef' = FALSE
    /\ failedRetries' = 0
    /\ service' = initialized(TRUE)
    /\ UNCHANGED <<mounted, seenRetryCount, cacheVars, rpcVars, walletVars, simVars>>

refInitFails(isRetry) ==
    /\ seenRetryCount = state.retryCount
    /\ finish(isRetry)
    /\ state' = refErrorState(state, isRetry)
    /\ isInitializingRef' = FALSE
    /\ failedRetries' = IF isRetry THEN failedRetries + 1 ELSE failedRetries
    /\ service' = initialized(FALSE)
    /\ initializeCatch
    /\ UNCHANGED <<mounted, seenRetryCount, rpc, begunBeforeReset, cacheVars, walletVars,
                   simVars>>

HookRefNext ==
    \/ refMount
    \/ refRetry
    \/ render
    \/ \E isRetry \in BOOLEAN : refInitSucceeds(isRetry)
    \/ \E isRetry \in BOOLEAN : refInitFails(isRetry)
    \/ \E initSuccess \in BOOLEAN : getPoolInfoUninitialized(initSuccess)

-----------------------------------------------------------------------------
(* Claims about the readiness hook *)

inProgress(st) == st.status \in {"initializing", "retrying"}

\* C8 (as claimed): once three retry attempts in a row have failed, canRetry
\* is false and no retry() starts another attempt or changes the state; with
\* fewer than three failed retries behind it, a settled error state still has
\* canRetry true.
C8_RetryBound ==
    [][/\ failedRetries' >= MaxRetries => ~canRetry'
       /\ failedRetries >= MaxRetries
             => (attempts'.retry <= attempts.retry
                   /\ (attempts' = attempts => state' = state))
       /\ (state'.status = "error" /\ running' = 0 /\ failedRetries' < MaxRetries)
             => canRetry']_vars

\* C9 (as claimed): at most one initialization attempt is in progress; while
\* the status is initializing or retrying no step starts an attempt, and only
\* the end of the attempt changes retryCount.
C9_OneAttempt ==
    [][/\ running' <= 1
       /\ inProgress(state)
             => /\ running' <= running
                /\ running' = running => state'.retryCount = state.retryCount]_vars

\* C10 (as claimed): the status only moves along idle->initializing,
\* initializing->ready, initializing->error, error->retrying (with
\* retryCount < 3), retrying->ready, retrying->error; ready is never left.
allowedTransitions ==
    {<<"idle", "initializing">>, <<"initializing", "ready">>, <<"initializing", "error">>,
     <<"error", "retrying">>, <<"retrying", "ready">>, <<"retrying", "error">>}

C10_Transitions ==
    [][state'.status # state.status
          => /\ <<state.status, state'.status>> \in allowedTransitions
             /\ state.status = "error" => state.retryCount < MaxRetries]_vars

\* C36 (as claimed): isReady is true exactly when status is 'ready', and error
\* is null whenever status is 'ready'.
C36_ReadyIffStatusReady ==
    /\ state.isReady <=> (state.status = "ready")
    /\ state.status = "ready" => state.error = NoError

\* C37 (as claimed): 0 <= retryCount <= 3 in every reachable state of the hook.
C37_RetryCountBounded ==
    0 <= state.retryCount /\ state.retryCount <= MaxRetries

\* C33: the pass-through operations are never cached or coalesced. A
\* pass-through call starts an invocation of the underlying method of its
\* own, also while an invocation with the same arguments is in progress or
\* has returned, and neither the call nor its return changes the cache map or
\* the in-flight registry.
C33_PassThroughNotCached ==
    [][/\ \A c \in Callers :
             (calls[c].mode = "none" /\ calls'[c].mode = "pass")
                => /\ flights[calls'[c].flight].st = "unused"
                   /\ flights'[calls'[c].flight].st \in {"invoked", "returning"}
                   /\ cache' = cache /\ requestQueue' = requestQueue
       /\ \A c1, c2 \in Callers :
             (c1 # c2 /\ calls'[c1].mode = "pass" /\ calls'[c2].mode = "pass")
                => calls'[c1].flight # calls'[c2].flight
       /\ \A f \in FlightIds :
             (flights[f].st \in {"invoked", "returning"} /\ flights'[f].st = "fulfilled")
                => (cache' = cache /\ requestQueue' = requestQueue)]_vars

\* two concurrent pass-through calls of the same method, each with an
\* underlying invocation of its own in progress
C33_Witness ==
    \E c1, c2 \in Callers :
        /\ c1 # c2
        /\ calls[c1].mode = "pass" /\ calls[c2].mode = "pass"
        /\ calls[c1].key = calls[c2].key
        /\ calls[c1].flight # calls[c2].flight
        /\ flights[calls[c1].flight].st = "invoked"
        /\ flights[calls[c2].flight].st = "invoked"

\* C38 (as claimed): initialization is sticky. Once isInitialized is true it
\* stays true, and an initialize() call made while it is true returns true
\* without contacting upstream (no probe, no request).
C38_InitializeSticky ==
    [][/\ service.isInitialized => service'.isInitialized
       /\ \A c \in RpcCallers :
             (service.isInitialized /\ rpc[c].st = "idle" /\ rpc'[c].st # "idle")
                => (rpc'[c].st = "true" /\ rpc'[c].probes = <<>>)]_vars

\* C20 (as claimed): once the status is error with retryCount at the limit,
\* raydiumSwapService.initialize is not invoked again: no step starts an
\* initialization attempt of the hook, and no service method invokes
\* initialize() on demand.
C20_ExhaustedIsTerminal ==
    [][(state.status = "error" /\ state.retryCount = MaxRetries)
          => /\ attempts'.first <= attempts.first
             /\ attempts'.retry <= attempts.retry
             /\ service'.onDemand = service.onDemand]_vars

\* C24: when raydiumSwapService.initialize() has returned false (the attempt
\* of the hook ends in the error state), the memoized RPC connection is
\* cleared: connection is none and currentEndpoint is empty, so that the next
\* getConnection() has no connection to return and probes.
C24_FailedInitResets ==
    [][(running' < running /\ state'.status = "error")
          => /\ connection' = NoConn
             /\ currentEndpoint' = 0
             /\ ~service'.isInitialized]_vars

\* a connection had been memoized by a probing call; the initialization has
\* failed since, and nothing is memoized
C24_Witness ==
    /\ state.status = "error"
    /\ connection = NoConn
    /\ getCurrentEndpoint = 0
    /\ \E c \in RpcCallers :
          rpc[c].st = "returned" /\ ~rpc[c].cached /\ rpc[c].result # NoConn

\* C25 (as claimed): in the error state the error exposed is the message of
\* the failure raised by the wrapped initialization, one of the messages of
\* the failures initialize() meets, not a substituted message.
C25_ErrorVerbatim ==
    state.status = "error" => state.error \in initializeFailures

-----------------------------------------------------------------------------
(* useWalletData: the on-chain balance fetch (src/src/hooks/useWalletData.ts,
   the revision of lines 237-505) *)

\* const solBalance / 1000000000: lamports per SOL
LamportsPerSol == 1000000000
\* Math.pow(10, 9), "Assuming 9 decimals"
IccDecimals == 9
\* Math.pow(10, 6), "USDC has 6 decimals"
UsdcDecimals == 6

RECURSIVE pow10(_)
pow10(n) == IF n = 0 THEN 1 ELSE 10 * pow10(n - 1)

\* what a sub-query has produced: nothing yet, a raw amount, or it threw
NotYet == [st |-> "pending", amount |-> 0]
Threw == [st |-> "threw", amount |-> 0]
Fetched(amount) == [st |-> "ok", amount |-> amount]

\* the raw amounts the chain may report for an account of base unit u:
\* none, one whole unit, two whole units
rawAmounts(u) == {Fetched(0), Fetched(u), Fetched(u + u)}

\* { icc_balance: 0, usdc_balance: 0, sol_balance: 0 }
zeroBalances == [icc_balance |-> 0, usdc_balance |-> 0, sol_balance |-> 0]

NoReturn == [kind |-> "none", balances |-> zeroBalances]
NoFetch == [pc |-> "idle", sol |-> NotYet, icc |-> NotYet, usdc |-> NotYet,
            returned |-> NoReturn, toasted |-> FALSE, second |-> "idle"]

\* balances.sol_balance = solBalance / 1000000000
solBalanceOf(lamports) == lamports.amount \div LamportsPerSol

\* the inner try/catch of a token: Number(account.amount) / Math.pow(10, d),
\* and 0 when the sub-query threw
tokenBalanceOf(outcome, decimals) ==
    IF outcome = Threw THEN 0 ELSE outcome.amount \div pow10(decimals)

\* Date.now(): a positive number of ticks since the epoch
dateNow == now + 1

\* fetchBalances() up to the first await of fetchRealBalances():
\* setLoading(true), await rpcService.getConnection()
fetchBalances ==
    /\ connected
    /\ ~loading
    /\ fetch.pc = "idle"
    /\ loading' = TRUE
    /\ fetch' = [NoFetch EXCEPT !.pc = "conn", !.second = fetch.second]
    /\ UNCHANGED <<connected, balances, lastBalanceCheck, toasts,
                   cacheVars, rpcVars, hookVars, simVars>>

\* fetchRealBalances returns a balance set; fetchBalances stores it:
\* setBalances(realBalances); setLastBalanceCheck(Date.now()); setLoading(false)
storeReturned(f, set) ==
    /\ fetch' = [f EXCEPT !.pc = "idle", !.returned = [kind |-> "balances", balances |-> set]]
    /\ balances' = set
    /\ lastBalanceCheck' = dateNow
    /\ loading' = FALSE

\* the outer catch of fetchRealBalances: toast "Balance Fetch Error" and
\* return the all-zero set, which fetchBalances stores
outerCatch(f) ==
    /\ toasts' = toasts \cup {"Balance Fetch Error"}
    /\ storeReturned([f EXCEPT !.toasted = TRUE], zeroBalances)

\* rpcService.getConnection() resolves: connection.getBalance(publicKey) is awaited
connectionResolves ==
    /\ fetch.pc = "conn"
    /\ fetch' = [fetch EXCEPT !.pc = "sol"]
    /\ UNCHANGED <<connected, balances, lastBalanceCheck, loading, toasts,
                   cacheVars, rpcVars, hookVars, simVars>>

\* rpcService.getConnection() rejects (all endpoints failed)
connectionRejects ==
    /\ fetch.pc = "conn"
    /\ outerCatch(fetch)
    /\ UNCHANGED <<connected, cacheVars, rpcVars, hookVars, simVars>>

\* connection.getBalance resolves with the lamports of the wallet
solResolves(lamports) ==
    /\ fetch.pc = "sol"
    /\ fetch' = [fetch EXCEPT !.pc = "icc", !.sol = lamports]
    /\ UNCHANGED <<connected, balances, lastBalanceCheck, loading, toasts,
                   cacheVars, rpcVars, hookVars, simVars>>

\* connection.getBalance rejects
solRejects ==
    /\ fetch.pc = "sol"
    /\ outerCatch([fetch EXCEPT !.sol = Threw])
    /\ UNCHANGED <<connected, cacheVars, rpcVars, hookVars, simVars>>

\* the ICC sub-query (getAssociatedTokenAddress, getAccount) ends: with the
\* account's amount, or by throwing (account not found)
iccSettlesAborting(outcome) ==
    /\ fetch.pc = "icc"
    /\ IF outcome = Threw
       THEN outerCatch([fetch EXCEPT !.icc = outcome])
       ELSE /\ fetch' = [fetch EXCEPT !.pc = "usdc", !.icc = outcome]
            /\ UNCHANGED <<balances, lastBalanceCheck, loading, toasts>>
    /\ UNCHANGED <<connected, cacheVars, rpcVars, hookVars, simVars>>

iccSettles(outcome) ==
    /\ fetch.pc = "icc"
    /\ fetch' = [fetch EXCEPT !.pc = "usdc", !.icc = outcome]
    /\ UNCHANGED <<connected, balances, lastBalanceCheck, loading, toasts,
                   cacheVars, rpcVars, hookVars, simVars>>

\* the USDC sub-query ends; fetchRealBalances returns balances
usdcSettles(outcome) ==
    /\ fetch.pc = "usdc"
    /\ storeReturned([fetch EXCEPT !.usdc = outcome],
                     [sol_balance |-> solBalanceOf(fetch.sol),
                      icc_balance |-> tokenBalanceOf(fetch.icc, IccDecimals),
                      usdc_balance |-> tokenBalanceOf(outcome, UsdcDecimals)])
    /\ UNCHANGED <<connected, toasts, cacheVars, rpcVars, hookVars, simVars>>

\* the wallet connects: connected && publicKey
connect ==
    /\ ~connected
    /\ connected' = TRUE
    /\ UNCHANGED <<balances, lastBalanceCheck, loading, fetch, toasts,
                   cacheVars, rpcVars, hookVars, simVars>>

\* the wallet disconnects; the connection effect resets the data:
\* setBalances({0, 0, 0}); setLastBalanceCheck(0)
disconnect ==
    /\ connected
    /\ connected' = FALSE
    /\ balances' = zeroBalances
    /\ lastBalanceCheck' = 0
    /\ UNCHANGED <<loading, fetch, toasts, cacheVars, rpcVars, hookVars, simVars>>

\* the balance sets fetchRealBalances can return: the all-zero set (also after
\* its outer catch) and one whole unit of each
returnedBalances ==
    {zeroBalances,
     [sol_balance |-> solBalanceOf(Fetched(LamportsPerSol)),
      icc_balance |-> tokenBalanceOf(Fetched(pow10(IccDecimals)), IccDecimals),
      usdc_balance |-> tokenBalanceOf(Fetched(pow10(UsdcDecimals)), UsdcDecimals)]}

\* fetchBalances() through a callback created by a render in which loading
\* was false (the one insertSwap captured, or a second call before the
\* re-render), while a fetch is running: its if (loading) test reads the
\* captured false, so setLoading(true) and a second fetchRealBalances()
fetchBalancesStale ==
    /\ connected
    /\ fetch.pc # "idle"
    /\ fetch.second = "idle"
    /\ loading' = TRUE
    /\ fetch' = [fetch EXCEPT !.second = "running"]
    /\ UNCHANGED <<connected, balances, lastBalanceCheck, toasts,
                   cacheVars, rpcVars, hookVars, simVars>>

\* the second fetchRealBalances() returns: setBalances(realBalances);
\* setLastBalanceCheck(Date.now()); setLoading(false)
secondFetchReturns(set) ==
    /\ fetch.second = "running"
    /\ fetch' = [fetch EXCEPT !.second = "idle"]
    /\ balances' = set
    /\ lastBalanceCheck' = dateNow
    /\ loading' = FALSE
    /\ UNCHANGED <<connected, toasts, cacheVars, rpcVars, hookVars, simVars>>

WalletInit ==
    /\ connected = FALSE
    /\ balances = zeroBalances
    /\ lastBalanceCheck = 0
    /\ loading = FALSE
    /\ fetch = NoFetch
    /\ toasts = {}

WalletNext ==
    \/ connect
    \/ disconnect
    \/ fetchBalances
    \/ connectionResolves
    \/ connectionRejects
    \/ \E lamports \in rawAmounts(LamportsPerSol) : solResolves(lamports)
    \/ solRejects
    \/ \E outcome \in rawAmounts(pow10(IccDecimals)) \cup {Threw} : iccSettles(outcome)
    \/ \E outcome \in rawAmounts(pow10(UsdcDecimals)) \cup {Threw} : usdcSettles(outcome)

\* the same operations, with the calls made through callbacks of an earlier
\* render
WalletStaleNext ==
    \/ WalletNext
    \/ fetchBalancesStale
    \/ \E set \in returnedBalances : secondFetchReturns(set)

-----------------------------------------------------------------------------
(* Claims about the balance fetch *)

\* C34 (as claimed): at most one on-chain balance fetch is in progress at a
\* time: no fetchRealBalances is started while another is still running.
C34_OneFetchAtATime ==
    ~(fetch.pc # "idle" /\ fetch.second # "idle")

\* C35 (as claimed): whenever the wallet is disconnected, the exposed balances
\* are all zero and lastBalanceCheck is 0.
C35_DisconnectedIsZero ==
    ~connected => (balances = zeroBalances /\ lastBalanceCheck = 0)

\* C11: partial balance tolerance. A fetch whose native-balance query
\* succeeded ends without an overall error: it returns a balance set with the
\* native balance as fetched, each token whose sub-query threw at 0 and each
\* other token as fetched, and shows no error toast.
C11_PartialBalances ==
    (fetch.pc = "idle" /\ fetch.sol.st = "ok")
       => /\ fetch.returned.kind = "balances"
          /\ ~fetch.toasted
          /\ fetch.returned.balances.sol_balance = fetch.sol.amount \div LamportsPerSol
          /\ fetch.returned.balances.icc_balance =
                IF fetch.icc.st = "threw" THEN 0 ELSE fetch.icc.amount \div pow10(IccDecimals)
          /\ fetch.returned.balances.usdc_balance =
                IF fetch.usdc.st = "threw" THEN 0 ELSE fetch.usdc.amount \div pow10(UsdcDecimals)

\* the ICC sub-query threw, SOL and USDC were fetched as 2 and 1 units: the
\* fetch returned {icc 0, usdc 1, sol 2} and it is the wallet's balance set
C11_Witness ==
    /\ fetch.pc = "idle"
    /\ fetch.sol = Fetched(2 * LamportsPerSol)
    /\ fetch.icc = Threw
    /\ fetch.usdc = Fetched(pow10(UsdcDecimals))
    /\ fetch.returned.kind = "balances"
    /\ balances = [icc_balance |-> 0, usdc_balance |-> 1, sol_balance |-> 2]

\* C12 (as claimed): when the native-balance query fails, the fetch fails: it
\* returns no balance set to fetchBalances, and the wallet's balances are not
\* replaced.
C12_NativeFailureFails ==
    [][(fetch.pc = "sol" /\ fetch'.sol = Threw)
          => /\ fetch'.returned.kind # "balances"
             /\ balances' = balances]_vars

-----------------------------------------------------------------------------
(* RaydiumSwapService.simulateSwap, the constant-product revision
   (src/src/utils/optimizedRaydiumService.ts, lines 749-855).
   A number is exact: n/d * 10^-e, n and d coprime, d > 0; d = 0 stands for
   Infinity (n > 0), -Infinity (n < 0) and NaN (n = 0).  The rounding of
   IEEE doubles is not modelled. *)

RECURSIVE gcd(_, _)
gcd(a, b) == IF b = 0 THEN a ELSE gcd(b, a % b)

absInt(i) == IF i < 0 THEN -i ELSE i

Num(n, d, e) ==
    IF n = 0 THEN [n |-> 0, d |-> 1, e |-> 0]
    ELSE LET g == gcd(absInt(n), d) IN [n |-> n \div g, d |-> d \div g, e |-> e]

Whole(i) == Num(i, 1, 0)
PosInfinity == [n |-> 1, d |-> 0, e |-> 0]
NotANumber == [n |-> 0, d |-> 0, e |-> 0]

\* isFinite(x)
isFinite(x) == x.d # 0

\* x <= 0 (false for NaN)
leqZero(x) == x.n < 0 \/ (x.n = 0 /\ x.d # 0)

\* the numerator of x over x.d * 10^-e, for e >= x.e
aligned(x, e) == x.n * pow10(e - x.e)

maxInt(i, j) == IF i >= j THEN i ELSE j

\* Number.isNaN(x)
isNaN(x) == x.d = 0 /\ x.n = 0

\* Math.sign(x), 0 for NaN
signOf(x) == IF x.n > 0 THEN 1 ELSE IF x.n < 0 THEN -1 ELSE 0

\* the infinity of sign s; NaN for s = 0
infinityOf(s) == [n |-> s, d |-> 0, e |-> 0]

\* x + y and x - y: NaN when an operand is NaN or for Infinity - Infinity,
\* the infinite operand when there is one
numAdd(x, y) ==
    IF x.d = 0 \/ y.d = 0
    THEN (IF isNaN(x) \/ isNaN(y) THEN NotANumber
          ELSE IF x.d = 0 /\ y.d = 0 THEN (IF x.n = y.n THEN x ELSE NotANumber)
          ELSE IF x.d = 0 THEN x ELSE y)
    ELSE LET e == maxInt(x.e, y.e)
             g == gcd(x.d, y.d)
         IN  Num(aligned(x, e) * (y.d \div g) + aligned(y, e) * (x.d \div g),
                 x.d * (y.d \div g), e)

numNeg(x) == [x EXCEPT !.n = -x.n]

numSub(x, y) == numAdd(x, numNeg(y))

\* x * y: with an operand that is not finite, the infinity of the product's
\* sign, NaN for NaN operands and for Infinity * 0
numMul(x, y) ==
    IF x.d = 0 \/ y.d = 0 THEN infinityOf(signOf(x) * signOf(y))
    ELSE LET g1 == gcd(absInt(x.n), y.d)
             g2 == gcd(absInt(y.n), x.d)
         IN  Num((x.n \div g1) * (y.n \div g2), (x.d \div g2) * (y.d \div g1), x.e + y.e)

\* x / y: division by zero gives an infinity, 0 / 0 and Infinity / Infinity
\* give NaN, a finite number over an infinity gives 0
numDiv(x, y) ==
    IF isNaN(x) \/ isNaN(y) THEN NotANumber
    ELSE IF y.d = 0 THEN (IF x.d = 0 THEN NotANumber ELSE Num(0, 1, 0))
    ELSE IF x.d = 0 THEN infinityOf(IF y.n < 0 THEN -x.n ELSE x.n)
    ELSE IF y.n = 0
    THEN (IF x.n = 0 THEN NotANumber
          ELSE [n |-> IF x.n > 0 THEN 1 ELSE -1, d |-> 0, e |-> 0])
    ELSE numMul(x, [n |-> IF y.n > 0 THEN y.d ELSE -y.d, d |-> absInt(y.n), e |-> -y.e])

\* Math.abs(x)
numAbs(x) == [x EXCEPT !.n = absInt(x.n)]

\* x <= y: false when an operand is NaN
numLeq(x, y) ==
    IF isNaN(x) \/ isNaN(y) THEN FALSE
    ELSE IF x.d = 0 /\ y.d = 0 THEN x.n <= y.n
    ELSE leqZero(numSub(x, y))

\* Math.min(x, y) with y finite: NaN when x is NaN
numMin(x, y) ==
    IF x.d = 0 THEN (IF x.n = 0 THEN x ELSE IF x.n > 0 THEN y ELSE x)
    ELSE IF numLeq(x, y) THEN x ELSE y

\* a decimal text: the integer part, the fraction digits as a number, and the
\* count of fraction digits; the literal '0' has none
Text(int, frac, digits) == [int |-> int, frac |-> frac, digits |-> digits]
ZeroText == Text(0, 0, 0)

\* toFixed keeps 8 decimals
FixedDigits == 8

\* long division: i more decimal digits of the quotient t with remainder r
RECURSIVE moreDigits(_, _, _, _)
moreDigits(t, r, d, i) ==
    IF i = 0 THEN <<t, r>>
    ELSE moreDigits(t * 10 + (r * 10) \div d, (r * 10) % d, d, i - 1)

\* x.toFixed(8), of a finite x >= 0: the integer part and the 8 fraction
\* digits of x rounded to the nearest multiple of 10^-8
toFixed(x) ==
    LET ten8 == pow10(FixedDigits)
        units == \* for x.e > 8: x in units of 10^-8
            LET dd == x.d * pow10(x.e - FixedDigits)
            IN  (x.n \div dd) + (IF 2 * (x.n % dd) >= dd THEN 1 ELSE 0)
        w == x.n \div x.d
        q == moreDigits(0, x.n % x.d, x.d, FixedDigits - x.e)
        frac == (w % pow10(x.e)) * pow10(FixedDigits - x.e) + q[1]
                   + (IF 2 * q[2] >= x.d THEN 1 ELSE 0)
    IN  IF x.e > FixedDigits THEN Text(units \div ten8, units % ten8, FixedDigits)
        ELSE IF frac = ten8 THEN Text((w \div pow10(x.e)) + 1, 0, FixedDigits)
        ELSE Text(w \div pow10(x.e), frac, FixedDigits)

\* the numeric value of a text is zero
isZeroText(t) == t.int = 0 /\ t.frac = 0

\* outputAmount * 0.9975: "realistic trading fees (0.25% for Raydium)"
FeeSurcharge == Num(401, 400, 0)

Fee == Num(399, 400, 0)

Hundred == Whole(100)

\* the pool snapshots getPoolInfo may hand to the simulation:
\* the pool of the source (1000000 ICC, 45 SOL, price 0.000045),
\* the pool (1000000, 1000) at price 0.001,
\* a thin pool (1000000 ICC against 0.0000045 SOL, price 0.0000000000045),
\* a pool whose quoted price (0.005) is below its reserve ratio (0.01),
\* and a pool quoted at price 0
SourcePool == [baseReserve |-> Whole(1000000), quoteReserve |-> Whole(45),
               price |-> Num(9, 200000, 0)]
ThousandPool == [baseReserve |-> Whole(1000000), quoteReserve |-> Whole(1000),
                 price |-> Num(1, 1000, 0)]
ThinPool == [baseReserve |-> Whole(1000000), quoteReserve |-> Num(45, 1, 7),
             price |-> Num(9, 200000, 7)]
StalePricePool == [baseReserve |-> Whole(1000), quoteReserve |-> Whole(10),
                   price |-> Num(1, 200, 0)]
ZeroPricePool == [baseReserve |-> Whole(1000), quoteReserve |-> Whole(10),
                  price |-> Whole(0)]
Pools == {SourcePool, ThousandPool, ThinPool, StalePricePool, ZeroPricePool}

\* price = quoteReserve / baseReserve
priceIsReserveRatio(pool) ==
    numSub(numMul(pool.price, pool.baseReserve), pool.quoteReserve).n = 0

\* the arguments of the calls; inputAmount is any number, Infinity included
InputAmounts == {Whole(-1), Whole(0), Whole(100), Whole(1000), Whole(10000), PosInfinity}
SlippageTolerances == {Whole(1), Num(1, 2, 0)}
TokenPairs == {<<"ICC", "SOL">>, <<"SOL", "ICC">>}

\* k = baseReserve * quoteReserve; newBaseReserve = baseReserve + inputAmount;
\* newQuoteReserve = k / newBaseReserve;
\* outputAmount = (quoteReserve - newQuoteReserve) * 0.9975
ammOutput(pool, inputAmount) ==
    LET k == numMul(pool.baseReserve, pool.quoteReserve)
        newBaseReserve == numAdd(pool.baseReserve, inputAmount)
        newQuoteReserve == numDiv(k, newBaseReserve)
    IN  numMul(numSub(pool.quoteReserve, newQuoteReserve), Fee)

\* expectedOutput = inputAmount * poolInfo.price
expectedOutput(pool, inputAmount) == numMul(inputAmount, pool.price)

\* priceImpact = Math.abs((expectedOutput - outputAmount) / expectedOutput) * 100
ammPriceImpact(pool, inputAmount) ==
    numMul(numAbs(numDiv(numSub(expectedOutput(pool, inputAmount),
                                ammOutput(pool, inputAmount)),
                         expectedOutput(pool, inputAmount))),
           Hundred)

NoSimError == "none"

\* { outputAmount: '0', priceImpact: 0, minimumReceived: '0', error }
errorResult(message) ==
    [outputAmount |-> ZeroText, priceImpact |-> Whole(0), minimumReceived |-> ZeroText,
     error |-> message]

\* getPoolInfo(baseToken, quoteToken) of an initialized service: the pool for
\* ICC/SOL, null for any other pair
getPoolInfo(pool, baseToken, quoteToken) ==
    IF baseToken = "ICC" /\ quoteToken = "SOL" THEN <<pool>> ELSE <<>>

\* the argument values a facade method can receive at run time, each with
\* its type and its text
StringValue(text) == [t |-> "string", s |-> text]
NumberValue(text) == [t |-> "number", s |-> text]
BooleanValue(text) == [t |-> "boolean", s |-> text]
NullValue == [t |-> "null", s |-> "null"]
UndefinedValue == [t |-> "undefined", s |-> "undefined"]
NonFiniteTexts == {"NaN", "Infinity", "-Infinity"}

\* JSON.stringify of one array element: a string is quoted; null, undefined
\* and the non-finite numbers are all written null; a finite number and a
\* boolean are written as their text
stringifyElement(v) ==
    IF v.t = "string" THEN [quoted |-> TRUE, text |-> v.s]
    ELSE IF v.t \in {"null", "undefined"} \/ (v.t = "number" /\ v.s \in NonFiniteTexts)
    THEN [quoted |-> FALSE, text |-> "null"]
    ELSE [quoted |-> FALSE, text |-> v.s]

\* JSON.stringify(args): the elements' texts in order
stringify(args) == [i \in DOMAIN args |-> stringifyElement(args[i])]

\* return `${method}:${JSON.stringify(args)}` (the text as its two parts: no
\* method name holds a colon)
getCacheKey(method, args) == [method |-> method, json |-> stringify(args)]

NoKeyCall == [made |-> FALSE, method |-> "", args |-> <<>>, key |-> getCacheKey("", <<>>)]
NoKeyed == [prev |-> NoKeyCall, last |-> NoKeyCall]

\* the argument lists of the facade methods: getPoolInfo(baseToken,
\* quoteToken) and simulateSwap(baseToken, quoteToken, inputAmount,
\* isFromBase, slippageTolerance), an omitted slippageTolerance being undefined
KeyAmounts == {NumberValue("100"), NumberValue("1000"), NumberValue("NaN"),
               NumberValue("Infinity"), NullValue}
KeySlippages == {NumberValue("1"), UndefinedValue, NullValue}
KeyPairs == {<<StringValue("ICC"), StringValue("SOL")>>,
             <<StringValue("SOL"), StringValue("ICC")>>}
FacadeCalls ==
    {[method |-> "getPoolInfo", args |-> p] : p \in KeyPairs}
    \cup {[method |-> "simulateSwap",
           args |-> p \o <<a, BooleanValue("true"), sl>>] :
             p \in KeyPairs, a \in KeyAmounts, sl \in KeySlippages}

\* const cacheKey = this.getCacheKey(method, ...args) of a facade call
facadeKey(call) ==
    /\ keyed' = [prev |-> keyed.last,
                 last |-> [made |-> TRUE, method |-> call.method, args |-> call.args,
                           key |-> getCacheKey(call.method, call.args)]]
    /\ UNCHANGED <<sim, cacheVars, rpcVars, hookVars, walletVars>>

KeyNext == \E call \in FacadeCalls : facadeKey(call)

\* the try block of simulateSwap
simulate(pool, baseToken, quoteToken, inputAmount, isFromBase, slippageTolerance) ==
    IF leqZero(inputAmount) THEN errorResult("Invalid input amount")
    ELSE IF getPoolInfo(pool, baseToken, quoteToken) = <<>>
    THEN errorResult("Pool information not available")
    ELSE IF ~(baseToken = "ICC" /\ quoteToken = "SOL" /\ isFromBase)
    THEN errorResult("Only ICC -> SOL swaps are currently supported")
    ELSE LET outputAmount == ammOutput(pool, inputAmount)
             minimumReceived ==
                 numMul(outputAmount, numSub(Whole(1), numDiv(slippageTolerance, Hundred)))
         IN  IF leqZero(outputAmount) \/ ~isFinite(outputAmount)
             THEN errorResult("Insufficient liquidity for this swap size")
             ELSE [outputAmount |-> toFixed(outputAmount),
                   priceImpact |-> numMin(ammPriceImpact(pool, inputAmount), Hundred),
                   minimumReceived |-> toFixed(minimumReceived),
                   error |-> NoSimError]

NoSimCall == [made |-> FALSE, wasInitialized |-> FALSE, baseToken |-> "", quoteToken |-> "",
              inputAmount |-> Whole(0), isFromBase |-> FALSE,
              slippageTolerance |-> Whole(0), result |-> errorResult(NoSimError)]

simCall(pair, inputAmount, isFromBase, slippageTolerance, result) ==
    [made |-> TRUE, wasInitialized |-> sim.isInitialized,
     baseToken |-> pair[1], quoteToken |-> pair[2], inputAmount |-> inputAmount,
     isFromBase |-> isFromBase, slippageTolerance |-> slippageTolerance, result |-> result]

\* simulateSwap(baseToken, quoteToken, inputAmount, isFromBase, slippageTolerance):
\* an uninitialized service initializes first (initOk: what initialize()
\* returns) and gives up when that fails; then the try block
simulateSwap(pair, inputAmount, isFromBase, slippageTolerance, initOk) ==
    /\ sim' = [sim EXCEPT
                 !.isInitialized = sim.isInitialized \/ initOk,
                 !.last = simCall(pair, inputAmount, isFromBase, slippageTolerance,
                             IF ~sim.isInitialized /\ ~initOk
                             THEN errorResult("Failed to initialize RaydiumSwapService")
                             ELSE simulate(sim.pool, pair[1], pair[2], inputAmount,
                                           isFromBase, slippageTolerance))]
    /\ UNCHANGED <<keyed, cacheVars, rpcVars, hookVars, walletVars>>

\* private isInitialized: boolean = false; no call made yet
simStart(pool) ==
    [isInitialized |-> FALSE, pool |-> pool, last |-> NoSimCall]

SimInit == sim = simStart(SourcePool) /\ keyed = NoKeyed

\* the simulation over each of the pool snapshots, fixed over a run
SimInputs == keyed = NoKeyed /\ \E pool \in Pools : sim = simStart(pool)

SimNext ==
    \E pair \in TokenPairs, inputAmount \in InputAmounts, isFromBase \in BOOLEAN,
       slippageTolerance \in SlippageTolerances, initOk \in BOOLEAN :
        simulateSwap(pair, inputAmount, isFromBase, slippageTolerance, initOk)

-----------------------------------------------------------------------------
(* Claims about the swap simulation *)

\* C30 (as claimed): cache keys are injective and stable: two facade calls get
\* the same key exactly when they have the same method name and equal
\* argument values.
C30_KeysInjective ==
    (keyed.prev.made /\ keyed.last.made)
       => ((keyed.prev.key = keyed.last.key)
             <=> (keyed.prev.method = keyed.last.method /\ keyed.prev.args = keyed.last.args))

succeeded(call) == call.made /\ call.result.error = NoSimError

C14_InvalidAmount ==
    (sim.last.made /\ leqZero(sim.last.inputAmount))
       => sim.last.result = errorResult("Invalid input amount")

C16_ImpactMonotone ==
    succeeded(sim.last)
       => \A a \in InputAmounts :
             LET smaller == simulate(sim.pool, sim.last.baseToken, sim.last.quoteToken, a,
                                     sim.last.isFromBase, sim.last.slippageTolerance)
             IN  (~numLeq(sim.last.inputAmount, a) /\ smaller.error = NoSimError)
                    => numLeq(smaller.priceImpact, sim.last.result.priceImpact)

\* C22 (as claimed): the priceImpact of a successful result is a number (not
\* NaN) from 0 to 100.
C22_ImpactInRange ==
    succeeded(sim.last)
       => /\ isFinite(sim.last.result.priceImpact)
          /\ numLeq(Whole(0), sim.last.result.priceImpact)
          /\ numLeq(sim.last.result.priceImpact, Hundred)

\* C23 (as claimed): the result of a simulateSwap call is a function of the
\* pool snapshot and the arguments alone, whatever the initialization state of
\* the service, and the call contacts no upstream: it leaves isInitialized
\* as it is (initialize() is not run).
C23_Deterministic ==
    [][sim'.last.made
          => /\ sim'.last.result =
                   simulate(sim'.pool, sim'.last.baseToken, sim'.last.quoteToken,
                            sim'.last.inputAmount, sim'.last.isFromBase,
                            sim'.last.slippageTolerance)
             /\ sim'.isInitialized = sim.isInitialized]_vars

\* C26 (as claimed): a call with inputAmount <= 0 changes no state: it runs
\* no initialization of the service (it is not a call that found the service
\* uninitialized, which runs initialize() first; isInitialized stays as it
\* is) and leaves the memoized RPC connection alone.
C26_ValidationIsPure ==
    [][(sim'.last.made /\ leqZero(sim'.last.inputAmount))
          => /\ sim'.isInitialized = sim.isInitialized
             /\ sim'.last.wasInitialized
             /\ connection' = connection
             /\ currentEndpoint' = currentEndpoint]_vars

-----------------------------------------------------------------------------
Init == CacheInit /\ RpcInit /\ HookInit /\ WalletInit /\ SimInit

CacheSpec == Init /\ [][CacheNext]_vars

DebounceStart == DebounceInit /\ RpcInit /\ HookInit /\ WalletInit /\ SimInit

DebounceSpec == DebounceStart /\ [][DebounceNext]_vars /\ DebounceFairness

CacheObservedSpec == Init /\ [][CacheObservedNext]_vars

FullCacheStart == FullCacheInit /\ RpcInit /\ HookInit /\ WalletInit /\ SimInit

FullCacheSpec == FullCacheStart /\ [][FullCacheNext]_vars

RpcSpec == Init /\ [][RpcNext]_vars

PassThroughSpec == Init /\ [][PassThroughNext]_vars

ServiceSpec == Init /\ [][ServiceNext]_vars

RpcLateSpec == Init /\ [][RpcLateNext]_vars

RpcObservedSpec == Init /\ [][RpcObservedNext]_vars

ServiceInitSpec == Init /\ [][ServiceInitNext]_vars

HookSpec == Init /\ [][HookNext]_vars

HookRefSpec == Init /\ [][HookRefNext]_vars

WalletStaleSpec == Init /\ [][WalletStaleNext]_vars

WalletSpec == Init /\ [][WalletNext]_vars

\* the simulation started on each of the pool snapshots
KeySpec == Init /\ [][KeyNext]_vars

SimStart == CacheInit /\ RpcInit /\ HookInit /\ WalletInit /\ SimInputs

SimSpec == SimStart /\ [][SimNext]_vars

=============================================================================
